---- MODULE Spec2Model ----
(***************************************************************************)
(* A model of nl-tracker: the visa-appointment slot monitor.               *)
(*                                                                         *)
(* The model follows src/main.py (check_once, check_available_slots,       *)
(* monitor, the command dispatch), src/proxy_host.py (ProxyHost),          *)
(* src/model.py (AvailableSlot) and src/utils.py.  The browser, the site,  *)
(* the Telegram API and the file system are the environment: every call    *)
(* into them either succeeds or raises, chosen nondeterministically.       *)
(*                                                                         *)
(* Text is modelled by strings.  Python counts every emoji of the          *)
(* notification texts as one character; each is written here as one ASCII  *)
(* stand-in character (see the Emoji definitions).                         *)
(***************************************************************************)
EXTENDS Integers, Sequences, FiniteSets, TLC

(***************************************************************************)
(* Bounds of the model.                                                    *)
(***************************************************************************)
\* calendar pages (months) the site offers before it shows the end marker
MaxPages == 2
\* time slots the site offers in one scrape, over all pages
MaxSlots == 1
\* required configuration keys that may be missing from config.json
MaxMissing == 1
\* check_once runs that are counted (the counter saturates here)
MaxRuns == 2
\* length of the slot lists given to get_available_dates on its own
MaxListLen == 3

(***************************************************************************)
(* Input domains.                                                          *)
(***************************************************************************)
\* the month labels of successive calendar pages, in calendar order
MonthLabels == <<"May", "Jun", "Jul">>
Days == {1, 2}
\* the time rows of a day's detail view, in page order
TimeRows == <<"0900", "1000", "1100">>
\* characters in code-point order, enough to compare the month labels
Alphabet == "ABCDEFGHIJKLMNOPQRSTUVWXYZabcdefghijklmnopqrstuvwxyz"

RequiredKeys == {"driver_path", "scheduling_url", "scheduling_city",
                 "scheduling_category", "telegram_chat_id",
                 "telegram_bot_api_token"}

(***************************************************************************)
(* Generic helpers.                                                        *)
(***************************************************************************)
Min(a, b) == IF a < b THEN a ELSE b

Range(s) == {s[i] : i \in DOMAIN s}

\* Python's str * n for a one-character string
RECURSIVE Repeat(_, _)
Repeat(c, n) ==
    IF n = 0 THEN ""
    ELSE IF n % 2 = 0 THEN LET half == Repeat(c, n \div 2) IN half \o half
    ELSE c \o Repeat(c, n - 1)

\* sorted(S) for a set of integers
RECURSIVE SortedInts(_)
SortedInts(S) ==
    IF S = {} THEN <<>>
    ELSE LET m == CHOOSE x \in S : \A y \in S : x <= y
         IN  <<m>> \o SortedInts(S \ {m})

CharPos(c) == CHOOSE i \in 1..Len(Alphabet) : SubSeq(Alphabet, i, i) = c

\* Python's a < b on str: code-point order, a proper prefix being smaller
RECURSIVE StrLess(_, _)
StrLess(a, b) ==
    IF Len(b) = 0 THEN FALSE
    ELSE IF Len(a) = 0 THEN TRUE
    ELSE LET ca == CharPos(SubSeq(a, 1, 1))
             cb == CharPos(SubSeq(b, 1, 1))
         IN  IF ca # cb THEN ca < cb
             ELSE StrLess(SubSeq(a, 2, Len(a)), SubSeq(b, 2, Len(b)))

\* sorted(S) for a set of strings
RECURSIVE SortedStrs(_)
SortedStrs(S) ==
    IF S = {} THEN <<>>
    ELSE LET m == CHOOSE x \in S : \A y \in S \ {x} : StrLess(x, y)
         IN  <<m>> \o SortedStrs(S \ {m})

(***************************************************************************)
(* src/model.py: AvailableSlot.  An AvailableSlot object is the tuple of   *)
(* its constructor arguments <<month, day, time>>; its dict form is a      *)
(* record.                                                                 *)
(***************************************************************************)
AvailableSlot(month, day, time) == <<month, day, time>>

to_dict(slot) == [month |-> slot[1], day |-> slot[2], time |-> slot[3]]

\* a reading that keeps the hours of the time alone
from_dict_hours(data) ==
    AvailableSlot(data["month"], data["day"], SubSeq(data["time"], 1, 2))

from_dict(data) == AvailableSlot(data["month"], data["day"], data["time"])

\* AvailableSlot.__eq__
eq(self, other) ==
    self[1] = other[1] /\ self[2] = other[2] /\ self[3] = other[3]

formatted_time(slot) == SubSeq(slot[3], 1, 2) \o ":" \o SubSeq(slot[3], 3, Len(slot[3]))

(***************************************************************************)
(* Dictionaries.  An OrderedDict is the sequence of its <<key, value>>     *)
(* items in insertion order, so that equality is order-sensitive as in     *)
(* Python.                                                                 *)
(***************************************************************************)
Keys(od) == {od[i][1] : i \in DOMAIN od}

\* od.get(key, default)
Get(od, key, default) ==
    IF key \in Keys(od)
    THEN od[CHOOSE i \in DOMAIN od : od[i][1] = key][2]
    ELSE default

\* a grouping that lists the day of every slot, in the order of the slots
get_available_dates_listed(slots) ==
    LET months == {slots[i][1] : i \in DOMAIN slots}
        of(m)  == SelectSeq(slots, LAMBDA s : s[1] = m)
        order  == SortedStrs(months)
    IN  [i \in DOMAIN order |->
            <<order[i], [k \in DOMAIN of(order[i]) |-> of(order[i])[k][2]]>>]

\* get_available_dates: month -> sorted distinct days, months sorted by label
get_available_dates(slots) ==
    LET months == {slots[i][1] : i \in DOMAIN slots}
        days(m) == {slots[i][2] : i \in {j \in DOMAIN slots : slots[j][1] = m}}
        order  == SortedStrs(months)
    IN  [i \in DOMAIN order |-> <<order[i], SortedInts(days(order[i]))>>]

(***************************************************************************)
(* src/main.py: get_available_slots_diff.  The result is an OrderedDict    *)
(* month -> dict with the optional keys 'removed' and 'added'; the inner   *)
(* dict is a function whose domain is the set of keys present.             *)
(***************************************************************************)
SeqToSet(days) == {days[i] : i \in DOMAIN days}

\* a difference that skips the months current does not have
removed_dates_known_months(baseline, current, month) ==
    IF month \in Keys(current)
    THEN SeqToSet(Get(baseline, month, <<>>)) \ SeqToSet(Get(current, month, <<>>))
    ELSE {}

removed_dates(baseline, current, month) ==
    SeqToSet(Get(baseline, month, <<>>)) \ SeqToSet(Get(current, month, <<>>))

\* a difference taken the wrong way round
added_dates_swapped(baseline, current, month) ==
    SeqToSet(Get(baseline, month, <<>>)) \ SeqToSet(Get(current, month, <<>>))

\* a difference that forgets to subtract the baseline
added_dates_all(baseline, current, month) == SeqToSet(Get(current, month, <<>>))

added_dates(baseline, current, month) ==
    SeqToSet(Get(current, month, <<>>)) \ SeqToSet(Get(baseline, month, <<>>))

get_available_slots_diff(baseline, current) ==
    LET hasRemoved(item) == removed_dates(baseline, current, item[1]) # {}
        hasAdded(item)   == added_dates(baseline, current, item[1]) # {}
        \* first loop: the baseline months that lost a day, in baseline order
        first  == SelectSeq(baseline, hasRemoved)
        \* second loop: setdefault appends the months not yet in the diff
        isNew(item) == hasAdded(item) /\ item[1] \notin Keys(first)
        second == SelectSeq(current, isNew)
        order  == first \o second
        entry(m) ==
            LET rem == removed_dates(baseline, current, m)
                add == IF m \in Keys(current)
                       THEN added_dates(baseline, current, m) ELSE {}
                present == (IF rem # {} THEN {"removed"} ELSE {})
                             \cup (IF add # {} THEN {"added"} ELSE {})
            IN  [k \in present |->
                    IF k = "removed" THEN SortedInts(rem) ELSE SortedInts(add)]
    IN  [i \in DOMAIN order |-> <<order[i][1], entry(order[i][1])>>]

\* dict.get(key, []) on an inner dict of the diff
EntryGet(entry, key) == IF key \in DOMAIN entry THEN entry[key] ELSE <<>>

(***************************************************************************)
(* src/main.py, check_once: the notification.                              *)
(***************************************************************************)
\* one-character stand-ins of the emoji of the texts
EmojiFire == "#"
EmojiBolt == "~"
EmojiCross == "-"
EmojiGreen == "+"
EmojiNoMore == "!"

\* the fixed maximum length of the notification text
MaxTextLen == 1000
CutMarker == " (cut)"

NoMoreSlotsText == EmojiNoMore \o " No more slots available..."

\* len([slot for slot in result.slots if slot.month == month and slot.day == day])
available_slot_count(slots, month, day) ==
    Cardinality({i \in DOMAIN slots : slots[i][1] = month /\ slots[i][2] = day})

RECURSIVE RemovedLines(_, _)
RemovedLines(days, month) ==
    IF days = <<>> THEN ""
    ELSE EmojiCross \o " " \o ToString(Head(days)) \o " " \o month \o "\n"
           \o RemovedLines(Tail(days), month)

RECURSIVE AddedLines(_, _, _)
AddedLines(days, month, slots) ==
    IF days = <<>> THEN ""
    ELSE LET n == available_slot_count(slots, month, Head(days))
         IN  EmojiGreen \o " " \o ToString(Head(days)) \o " " \o month \o " ("
               \o ToString(n) \o " " \o (IF n = 1 THEN "slot" ELSE "slots")
               \o ")\n" \o AddedLines(Tail(days), month, slots)

\* a body that lists the added days of a month before its removed days
RECURSIVE diff_description_added_first(_, _)
diff_description_added_first(diff, slots) ==
    IF diff = <<>> THEN ""
    ELSE LET month == Head(diff)[1]
             entry == Head(diff)[2]
         IN  AddedLines(EntryGet(entry, "added"), month, slots)
               \o RemovedLines(EntryGet(entry, "removed"), month)
               \o diff_description_added_first(Tail(diff), slots)

\* the loop over the months of the diff, lines 532-546
RECURSIVE diff_description(_, _)
diff_description(diff, slots) ==
    IF diff = <<>> THEN ""
    ELSE LET month == Head(diff)[1]
             entry == Head(diff)[2]
         IN  RemovedLines(EntryGet(entry, "removed"), month)
               \o AddedLines(EntryGet(entry, "added"), month, slots)
               \o diff_description(Tail(diff), slots)

\* added_something, line 531/536
added_something(diff) == \E i \in DOMAIN diff : EntryGet(diff[i][2], "added") # <<>>

\* the assertion of line 543 holds for every added day
SlotCountAssertionHolds(diff, slots) ==
    \A i \in DOMAIN diff :
        \A j \in DOMAIN EntryGet(diff[i][2], "added") :
            available_slot_count(slots, diff[i][1], EntryGet(diff[i][2], "added")[j]) > 0

\* lines 518-549: the text before the cut
notification_text(prev_available_dates, available_dates, slots, scheduling_url) ==
    (IF prev_available_dates = <<>>
     THEN EmojiFire \o " Found available days!"
     ELSE EmojiBolt \o " Available days changed!")
      \o "\n\n"
      \o diff_description(
             get_available_slots_diff(prev_available_dates, available_dates), slots)
      \o "\n" \o scheduling_url

\* a cut that takes the limit itself for an overflow
CutTextAtLimit(text) ==
    IF Len(text) >= MaxTextLen
    THEN SubSeq(text, 1, MaxTextLen) \o CutMarker
    ELSE text

\* lines 551-553: cut the message if too long
CutText(text) ==
    IF Len(text) > MaxTextLen
    THEN SubSeq(text, 1, MaxTextLen) \o CutMarker
    ELSE text

\* the call the bot receives: send_media_group (lines 558-563) when there are
\* slots now, send_message (lines 565-568) otherwise.  send_message is given
\* no disable_notification, which Telegram takes as "with sound".
Notification(prev_available_dates, available_dates, slots, screenshots, scheduling_url) ==
    IF available_dates # <<>>
    THEN [call |-> "send_media_group",
          text |-> CutText(notification_text(prev_available_dates,
                               available_dates, slots, scheduling_url)),
          media |-> screenshots,
          disable_notification |->
              ~added_something(get_available_slots_diff(prev_available_dates,
                                                        available_dates))]
    ELSE [call |-> "send_message",
          text |-> NoMoreSlotsText,
          media |-> 0,
          disable_notification |-> FALSE]

(***************************************************************************)
(* The configuration (config.json, read_config).  A config is the function *)
(* from the keys present to their values.                                  *)
(***************************************************************************)
OptionalKeys == {"anticaptcha_api_key", "telegram_status_message_id"}

ShortUrl == "https://" \o Repeat("u", 12)
\* an URL that brings the composed text to the maximum length and beyond
LongUrl == "https://" \o Repeat("u", 949)

BaseConfig ==
    [k \in RequiredKeys |->
        CASE k = "scheduling_url" -> ShortUrl
          [] k = "scheduling_city" -> "Moscow"
          [] OTHER -> "set"]

With(cfg, key, value) ==
    [k \in DOMAIN cfg \cup {key} |-> IF k = key THEN value ELSE cfg[k]]

Without(cfg, keys) == [k \in DOMAIN cfg \ keys |-> cfg[k]]

Configs ==
    {BaseConfig,
     With(BaseConfig, "scheduling_url", LongUrl),
     With(BaseConfig, "scheduling_city", ""),
     With(BaseConfig, "anticaptcha_api_key", "key"),
     With(BaseConfig, "telegram_status_message_id", "42")}
      \cup {Without(BaseConfig, missing) :
              missing \in {m \in SUBSET RequiredKeys :
                              Cardinality(m) \in 1..MaxMissing}}

\* config.get(key): None (falsy) when absent
ConfigTruthy(cfg, key) == key \in DOMAIN cfg /\ cfg[key] # ""

\* a require_config_key that never raises
require_config_key_lenient(cfg, config_key) == TRUE

\* require_config_key raises RuntimeError when the key is not in config
require_config_key_ok(cfg, config_key) == config_key \in DOMAIN cfg

(***************************************************************************)
(* The calendar pages of the site.  The content of a page gives, for each  *)
(* day, -1 when its cell is not an open/allocated one and otherwise the    *)
(* number of time rows its detail view shows.                              *)
(***************************************************************************)
NotOpen == 0 - 1

PageContents == [Days -> NotOpen..MaxSlots]

\* the pages served to the runs of a monitor() loop: the calendar there has
\* at most the first day of the first month open, with one time row
MonitorPageContents(page) ==
    {content \in PageContents :
        \A d \in Days :
            content[d] <= (IF d = 1 /\ page = 1 THEN 1 ELSE NotOpen)}

PagesServed(fr, page) ==
    IF fr = "monitor" THEN MonitorPageContents(page) ELSE PageContents

RECURSIVE RowsOf(_)
RowsOf(f) == IF DOMAIN f = {} THEN 0
             ELSE LET d == CHOOSE x \in DOMAIN f : TRUE
                  IN  (IF f[d] > 0 THEN f[d] ELSE 0)
                        + RowsOf([x \in DOMAIN f \ {d} |-> f[x]])

\* parse_available_times_in_day + line 218: the slots of one day
DaySlots(month, day, rows) ==
    [t \in 1..rows |-> AvailableSlot(month, day, TimeRows[t])]

\* parse_available_dates: the open days are visited in page order and their
\* slots chained in that order (itertools.chain over the dict's values)
RECURSIVE ChainDays(_, _, _)
ChainDays(month, days, content) ==
    IF days = <<>> THEN <<>>
    ELSE (IF content[Head(days)] = NotOpen THEN <<>>
          ELSE DaySlots(month, Head(days), content[Head(days)]))
           \o ChainDays(month, Tail(days), content)

parse_available_dates(month, content) ==
    ChainDays(month, SortedInts(DOMAIN content), content)

(***************************************************************************)
(* The state of the program.                                               *)
(***************************************************************************)
VARIABLES
    pc,           \* the statement about to execute
    entry,        \* how the program was entered: "script" or "monitor()"
    frame,        \* the function that calls check_once: "main" or "monitor"
    command,      \* args.command
    exitStatus,   \* how the process ended: "running", "ok" or "traceback"
    runs,         \* check_once calls started, saturating at MaxRuns
    swallowed,    \* exceptions monitor has swallowed, saturating at MaxRuns
    config,       \* the parsed config.json
    stateFile,    \* the dict state.json holds (the empty dict when absent)
    cookieFile,   \* cookies.dat: whether it exists and the cookies it holds
    proc,         \* ProxyHost.proc: "None" or "running"
    log_file,     \* ProxyHost.log_file: "None" or "open"
    driver,       \* the local driver of check_once: "None", "open", "closed"
    challenge,    \* the browser shows the captcha challenge screen
    jar,          \* the cookies of the browser session
    navigations,  \* driver.get calls of this run
    state,        \* the local state of check_once (the loaded dict)
    slots,        \* available_slots / result.slots of this run
    screenshots,  \* number of screenshots collected in this run
    pageNo,       \* the calendar page the walker is on
    retry_num,    \* utils.retry: retry_num
    captcha_round,\* the manual-wait loop counter
    slept,        \* seconds slept in the captcha gate of this run
    leftover,     \* the seconds left that the manual wait logged last
    message,      \* the element plhMain_lblMsg as last looked up, and where
    cells,        \* the day cells of the calendar page displayed
    checkpoints,  \* the page_trace checkpoints written in this run
    sent,         \* the calls the Telegram bot received in this run
    failedAt,     \* the statement of the try block that raised, or "none"
    excType,      \* what it raised
    raised,       \* an exception is propagating out of check_once
    errorPath,    \* what the except block did: checkpoint and cookie save
    stateSaved,   \* state_provider.save ran in this run
    cookieSaves,  \* the save_cookies calls of this run, in order
    fn,           \* the function called on its own, "none" in a program run
    arg_baseline, \* get_available_slots_diff: its first argument
    arg_current,  \* get_available_slots_diff: its second argument
    ret_diff,     \* get_available_slots_diff: the mapping returned
    ret_dates,    \* get_available_dates(slots): the snapshot returned
    arg_slot,     \* an AvailableSlot
    ret_slot,     \* AvailableSlot.from_dict(arg_slot.to_dict())
    \* ProxyHost and its watcher thread taken statement by statement
    process,      \* the mitmdump process: "none", "running", "crashed", "killed"
    returncode,   \* Popen.returncode as the last poll() left it
    watch_pc,     \* the statement of _monitor the watcher thread is at
    watch_proc,   \* the local `proc` of _monitor
    watch_error,  \* the exception that ended the watcher thread
    death_logged  \* the state of the process when 'has existed' was logged

inputVars == <<entry, command, config>>
callVars == <<fn, arg_baseline, arg_current, ret_diff, ret_dates, arg_slot, ret_slot>>
watchVars == <<process, returncode, watch_pc, watch_proc, watch_error, death_logged>>
procVars == <<pc, frame, exitStatus, runs, swallowed>>
fileVars == <<stateFile, cookieFile>>
proxyVars == <<proc, log_file>>
browserVars == <<driver, challenge, jar, navigations>>
walkVars == <<slots, screenshots, pageNo>>
pageVars == <<message, cells>>
gateVars == <<retry_num, captcha_round, slept, leftover>>
failVars == <<failedAt, excType, raised>>
runVars == <<state, checkpoints, sent, errorPath, stateSaved, cookieSaves>>

vars == <<callVars, watchVars, inputVars, procVars, fileVars, proxyVars, browserVars, walkVars, pageVars,
          gateVars, failVars, runVars>>

Commands == {"check", "monitor", "bot-test"}

\* state files left by earlier runs or written by hand
EmptyDict == [k \in {} |-> ""]

InitStateFiles ==
    {EmptyDict,
     [note |-> "kept"],
     [available_slots |-> <<to_dict(AvailableSlot("May", 1, "1000"))>>,
      timestamp |-> 0],
     [available_slots |-> <<to_dict(AvailableSlot("May", 1, "0900")),
                            to_dict(AvailableSlot("May", 2, "0900"))>>,
      timestamp |-> 0, note |-> "kept"],
     [available_slots |-> <<to_dict(AvailableSlot("Jun", 1, "0900")),
                            to_dict(AvailableSlot("May", 1, "0900"))>>,
      timestamp |-> 0]}

NoCookieFile == [exists |-> FALSE, cookies |-> {}]

NoErrorPath == [checkpoint |-> "none", captcha |-> "unchecked", cookies |-> "none"]

\* no function is called on its own
NoCall ==
    /\ fn = "none"
    /\ arg_baseline = <<>>
    /\ arg_current = <<>>
    /\ ret_diff = <<>>
    /\ ret_dates = <<>>
    /\ arg_slot = AvailableSlot("May", 1, "0900")
    /\ ret_slot = AvailableSlot("May", 1, "0900")

\* no page of the booking flow is displayed
NoMessage == [span |-> FALSE, text |-> "", stage |-> "none"]
NoCells == [d \in Days |-> NotOpen]

\* no ProxyHost is followed statement by statement
NoWatch ==
    /\ process = "none"
    /\ returncode = "None"
    /\ watch_pc = "not_started"
    /\ watch_proc = "None"
    /\ watch_error = "none"
    /\ death_logged = "none"

\* no run of check_once has started
NoRun ==
    /\ exitStatus = "running"
    /\ runs = 0
    /\ swallowed = 0
    /\ proc = "None"
    /\ log_file = "None"
    /\ driver = "None"
    /\ challenge = FALSE
    /\ jar = {}
    /\ navigations = 0
    /\ state = EmptyDict
    /\ screenshots = 0
    /\ pageNo = 0
    /\ retry_num = 0
    /\ captcha_round = 0
    /\ slept = 0
    /\ leftover = 0
    /\ message = NoMessage
    /\ cells = NoCells
    /\ checkpoints = <<>>
    /\ sent = <<>>
    /\ failedAt = "none"
    /\ excType = "none"
    /\ raised = FALSE
    /\ errorPath = NoErrorPath
    /\ stateSaved = FALSE
    /\ cookieSaves = <<>>

Init ==
    /\ entry \in {"script", "monitor()"}
    /\ command \in Commands
    /\ entry = "monitor()" => command = "monitor"
    /\ frame = IF entry = "script" THEN "main" ELSE "monitor"
    /\ pc = frame
    /\ config \in Configs
    /\ stateFile \in InitStateFiles
    /\ cookieFile \in {NoCookieFile, [exists |-> TRUE, cookies |-> {"old"}]}
    \* the inputs are varied around a complete configuration with no files:
    \* every command and cookie file with that configuration and no state
    \* file; every configuration with the `check` command and no files;
    \* every state file with the two complete configurations whose
    \* notification texts differ.  A program that imports main.py and calls
    \* monitor() starts from the complete configuration and no files.
    /\ entry = "monitor()" => cookieFile = NoCookieFile
    /\ \/ config = BaseConfig /\ stateFile = EmptyDict
       \/ /\ entry = "script" /\ command = "check" /\ cookieFile = NoCookieFile
          /\ \/ stateFile = EmptyDict
             \/ config \in {BaseConfig, With(BaseConfig, "scheduling_url", LongUrl)}
    /\ slots = <<>>
    /\ NoRun
    /\ NoCall
    /\ NoWatch

(***************************************************************************)
(* Exceptions.  Every exception the modelled calls raise is a subclass of  *)
(* Exception.                                                              *)
(***************************************************************************)
ExceptionTypes == {"RuntimeError", "OSError", "WebDriverException",
                   "NoSuchElementException", "TelegramError", "IndexError",
                   "AssertionError", "Exception"}

\* a statement of the try block of check_once raises: control goes to the
\* except block of line 591
Raise(step, type) ==
    /\ failedAt' = step
    /\ excType' = type
    /\ raised' = TRUE
    /\ pc' = "co_except"

Goto(next) == pc' = next /\ UNCHANGED failVars

(***************************************************************************)
(* src/main.py, __main__: the command dispatch (lines 705-724).            *)
(***************************************************************************)
Dispatch(cmd) ==
    IF cmd \in {"check", "monitor"} THEN "check_once"
    ELSE IF cmd = "monitor" THEN "monitor"
    ELSE IF cmd = "bot-test" THEN "bot_test"
    ELSE "unknown"

Main ==
    /\ pc = "main"
    /\ pc' = CASE Dispatch(command) = "check_once" -> "co_start"
               [] Dispatch(command) = "monitor" -> "monitor"
               [] Dispatch(command) = "bot_test" -> "bot_test"
               [] OTHER -> "exit"
    /\ frame' = IF Dispatch(command) = "monitor" THEN "monitor" ELSE frame
    /\ exitStatus' = IF Dispatch(command) = "unknown" THEN "traceback" ELSE exitStatus
    /\ UNCHANGED <<callVars, watchVars, inputVars, runs, swallowed, fileVars, proxyVars, browserVars, walkVars, pageVars,
                   gateVars, failVars, runVars>>

\* check_once returned to the script: the process ends, with a traceback
\* when the exception propagated
MainReturn ==
    /\ pc = "co_return"
    /\ frame = "main"
    /\ pc' = "exit"
    /\ exitStatus' = IF raised THEN "traceback" ELSE "ok"
    /\ UNCHANGED <<callVars, watchVars, inputVars, frame, runs, swallowed, fileVars, proxyVars, browserVars,
                   walkVars, pageVars, gateVars, failVars, runVars>>

(***************************************************************************)
(* src/main.py: monitor (lines 609-622).                                   *)
(***************************************************************************)
\* a handler that catches only RuntimeError
monitor_catches_runtime_only(type) == type = "RuntimeError"

\* `except Exception` of line 619
monitor_catches(type) == type \in ExceptionTypes

\* line 612-618: the loop calls check_once
Monitor ==
    /\ pc = "monitor"
    /\ pc' = "co_start"
    /\ UNCHANGED <<callVars, watchVars, inputVars, frame, exitStatus, runs, swallowed, fileVars, proxyVars,
                   browserVars, walkVars, pageVars, gateVars, failVars, runVars>>

\* lines 619-621: check_once returned or raised
MonitorCatch ==
    /\ pc = "co_return"
    /\ frame = "monitor"
    /\ IF raised /\ ~monitor_catches(excType)
       THEN pc' = "exit" /\ exitStatus' = "traceback" /\ UNCHANGED swallowed
       ELSE /\ pc' = "mon_sleep"
            /\ swallowed' = IF raised THEN Min(swallowed + 1, MaxRuns) ELSE swallowed
            /\ UNCHANGED exitStatus
    /\ UNCHANGED <<callVars, watchVars, inputVars, frame, runs, fileVars, proxyVars, browserVars,
                   walkVars, pageVars, gateVars, failVars, runVars>>

\* line 622: time.sleep(period_seconds), then the next iteration
MonitorSleep ==
    /\ pc = "mon_sleep"
    /\ pc' = "monitor"
    /\ UNCHANGED <<callVars, watchVars, inputVars, frame, exitStatus, runs, swallowed, fileVars, proxyVars,
                   browserVars, walkVars, pageVars, gateVars, failVars, runVars>>

(***************************************************************************)
(* src/main.py: bot_test (lines 625-644).  The driver is never closed.     *)
(***************************************************************************)
BotTest ==
    /\ pc = "bot_test"
    /\ pc' = "exit"
    /\ \/ /\ ~require_config_key_ok(config, "driver_path")
          /\ exitStatus' = "traceback"
          /\ UNCHANGED <<browserVars, checkpoints>>
       \/ /\ require_config_key_ok(config, "driver_path")
          /\ \E launched \in BOOLEAN, loaded \in BOOLEAN :
               /\ driver' = IF launched THEN "open" ELSE "None"
               /\ navigations' = IF launched THEN 1 ELSE 0
               /\ jar' = IF launched /\ loaded THEN {"new"} ELSE {}
               /\ checkpoints' = IF launched /\ loaded THEN <<"bot-test">> ELSE <<>>
               /\ exitStatus' = IF launched /\ loaded THEN "ok" ELSE "traceback"
               /\ UNCHANGED challenge
    /\ UNCHANGED <<callVars, watchVars, inputVars, frame, runs, swallowed, fileVars, proxyVars, walkVars, pageVars, gateVars,
                   failVars, state, sent, errorPath, stateSaved, cookieSaves>>

(***************************************************************************)
(* src/main.py: check_once (lines 457-606), first part: configuration,     *)
(* proxy, browser, cookies, bot, state.                                    *)
(***************************************************************************)
\* lines 460-463: the locals of a new call
CoStart ==
    /\ pc = "co_start"
    /\ pc' = "co_config"
    /\ runs' = Min(runs + 1, MaxRuns)
    /\ proc' = "None"
    /\ log_file' = "None"
    /\ driver' = "None"
    /\ challenge' = FALSE
    /\ jar' = {}
    /\ navigations' = 0
    /\ slots' = <<>>
    /\ screenshots' = 0
    /\ pageNo' = 0
    /\ message' = NoMessage
    /\ cells' = NoCells
    /\ retry_num' = 0
    /\ captcha_round' = 0
    /\ slept' = 0
    /\ leftover' = 0
    /\ state' = EmptyDict
    /\ checkpoints' = <<>>
    /\ sent' = <<>>
    /\ failedAt' = "none"
    /\ excType' = "none"
    /\ raised' = FALSE
    /\ errorPath' = NoErrorPath
    /\ stateSaved' = FALSE
    /\ cookieSaves' = <<>>
    /\ UNCHANGED <<callVars, watchVars, inputVars, frame, exitStatus, swallowed, fileVars>>

\* lines 466-470: driver_path, driver type, scheduling_url
CoConfig ==
    /\ pc = "co_config"
    /\ IF require_config_key_ok(config, "driver_path")
          /\ require_config_key_ok(config, "scheduling_url")
       THEN Goto("co_proxy_start")
       ELSE Raise("co_config", "RuntimeError")
    /\ UNCHANGED <<callVars, watchVars, inputVars, frame, exitStatus, runs, swallowed, fileVars, proxyVars,
                   browserVars, walkVars, pageVars, gateVars, runVars>>

\* line 473, ProxyHost.start (src/proxy_host.py lines 15-35): open the log
\* file, spawn mitmdump, start the watcher thread
CoProxyStart ==
    /\ pc = "co_proxy_start"
    /\ \/ /\ proc' = "running"
          /\ log_file' = "open"
          /\ Goto("co_launch")
       \/ \* open('mitmdump.log') raises
          /\ UNCHANGED proxyVars
          /\ Raise("co_proxy_start", "OSError")
       \/ \* Popen raises (mitmdump is not installed): the log file stays open
          /\ log_file' = "open"
          /\ UNCHANGED proc
          /\ Raise("co_proxy_start", "OSError")
    /\ UNCHANGED <<callVars, watchVars, inputVars, frame, exitStatus, runs, swallowed, fileVars, browserVars,
                   walkVars, pageVars, gateVars, runVars>>

\* line 483: driver = driver_loader_fn(driver_path, **params)
CoLaunch ==
    /\ pc = "co_launch"
    /\ \/ driver' = "open" /\ Goto("co_cookie_nav")
       \/ UNCHANGED driver /\ Raise("co_launch", "WebDriverException")
    /\ UNCHANGED <<callVars, watchVars, inputVars, frame, exitStatus, runs, swallowed, fileVars, proxyVars,
                   challenge, jar, navigations, walkVars, pageVars, gateVars, runVars>>

\* driver.get(url): the site answers with the page or with the challenge
\* screen, and sets its session cookies
Navigate(ok, shown) ==
    /\ navigations' = navigations + 1
    /\ IF ok
       THEN challenge' = shown /\ jar' = jar \cup {"new"}
       ELSE UNCHANGED <<challenge, jar>>

\* line 487: driver.get(scheduling_url), to be on the domain of the cookies
CoCookieNav ==
    /\ pc = "co_cookie_nav"
    /\ \E ok \in BOOLEAN, shown \in BOOLEAN :
         /\ Navigate(ok, shown)
         /\ IF ok THEN Goto("co_load_cookies")
            ELSE Raise("co_cookie_nav", "WebDriverException")
    /\ UNCHANGED <<callVars, watchVars, inputVars, frame, exitStatus, runs, swallowed, fileVars, proxyVars,
                   driver, walkVars, pageVars, gateVars, runVars>>

\* lines 446-454: load_cookies
load_cookies(file, cookies) ==
    IF file.exists THEN cookies \cup file.cookies ELSE cookies

\* lines 440-443: save_cookies
save_cookies(cookies) == [exists |-> TRUE, cookies |-> cookies]

\* line 488
CoLoadCookies ==
    /\ pc = "co_load_cookies"
    /\ \/ jar' = load_cookies(cookieFile, jar) /\ Goto("co_telegram")
       \/ /\ cookieFile.exists
          /\ UNCHANGED jar
          /\ Raise("co_load_cookies", "WebDriverException")
    /\ UNCHANGED <<callVars, watchVars, inputVars, frame, exitStatus, runs, swallowed, fileVars, proxyVars,
                   driver, challenge, navigations, walkVars, pageVars, gateVars, runVars>>

\* lines 491-496: the Telegram keys and the bot
CoTelegram ==
    /\ pc = "co_telegram"
    /\ IF require_config_key_ok(config, "telegram_chat_id")
          /\ require_config_key_ok(config, "telegram_bot_api_token")
       THEN Goto("co_state_get")
       ELSE Raise("co_telegram", "RuntimeError")
    /\ UNCHANGED <<callVars, watchVars, inputVars, frame, exitStatus, runs, swallowed, fileVars, proxyVars,
                   browserVars, walkVars, pageVars, gateVars, runVars>>

\* line 498: state = state_provider.get() (JsonFileStateProvider.get)
CoStateGet ==
    /\ pc = "co_state_get"
    /\ \/ state' = stateFile /\ Goto("cas_config")
       \/ UNCHANGED state /\ Raise("co_state_get", "OSError")
    /\ UNCHANGED <<callVars, watchVars, inputVars, frame, exitStatus, runs, swallowed, fileVars, proxyVars,
                   browserVars, walkVars, pageVars, gateVars, checkpoints, sent,
                   errorPath, stateSaved, cookieSaves>>

(***************************************************************************)
(* src/main.py: the markers and the checkpoints.                           *)
(***************************************************************************)
\* NO_DATES_MARKER_RE (lines 33-37): the phrases of the alternation
MarkerPhrases == {"No date(s) available for appointment",
                  "No Appointment slots available",
                  "No date(s) available for current month",
                  "Error in the application, please contact admin"}

\* re.search of a literal phrase
Contains(text, phrase) ==
    \E i \in 1..(Len(text) - Len(phrase) + 1) :
        SubSeq(text, i, i + Len(phrase) - 1) = phrase

\* what the element plhMain_lblMsg may be: absent, or a span with a text
Messages ==
    {[span |-> FALSE, text |-> ""], [span |-> TRUE, text |-> ""],
     [span |-> TRUE, text |-> "Please select a date"]}
      \cup {[span |-> TRUE, text |-> phrase] : phrase \in MarkerPhrases}

\* a test that knows the first phrase of the alternation alone
is_no_dates_available_marker_first_phrase(element) ==
    element.span /\ Contains(element.text, "No date(s) available for appointment")

\* is_no_dates_available_marker_present (lines 239-241)
is_no_dates_available_marker_present(element) ==
    element.span /\ \E phrase \in MarkerPhrases : Contains(element.text, phrase)

\* is_captcha_screen_present (lines 244-248): the heading of the challenge
is_captcha_screen_present(shown) == shown

\* page_trace (lines 171-176) wrote the checkpoint
Traced(name) == checkpoints' = Append(checkpoints, name)

(***************************************************************************)
(* src/main.py: check_available_slots (lines 295-399), the booking flow.   *)
(***************************************************************************)
\* lines 296-298
CasConfig ==
    /\ pc = "cas_config"
    /\ IF /\ require_config_key_ok(config, "scheduling_url")
          /\ require_config_key_ok(config, "scheduling_city")
          /\ require_config_key_ok(config, "scheduling_category")
       THEN Goto("cas_get")
       ELSE Raise("cas_config", "RuntimeError")
    /\ UNCHANGED <<callVars, watchVars, inputVars, frame, exitStatus, runs, swallowed, fileVars, proxyVars,
                   browserVars, walkVars, pageVars, gateVars, runVars>>

\* lines 300-302: driver.get(scheduling_url); page_trace(driver, 'loaded')
CasGet ==
    /\ pc = "cas_get"
    /\ \E ok \in BOOLEAN, shown \in BOOLEAN, traced \in BOOLEAN :
         /\ Navigate(ok, shown)
         /\ IF ~ok THEN /\ Raise("cas_get", "WebDriverException")
                        /\ UNCHANGED checkpoints
            ELSE IF ~traced THEN /\ Raise("cas_get", "OSError")
                                 /\ UNCHANGED checkpoints
            ELSE Traced("loaded") /\ Goto("cas_captcha")
    /\ UNCHANGED <<callVars, watchVars, inputVars, frame, exitStatus, runs, swallowed, fileVars, proxyVars,
                   driver, walkVars, pageVars, gateVars, state, sent, errorPath,
                   stateSaved, cookieSaves>>

\* lines 304-308: the captcha gate
CasCaptcha ==
    /\ pc = "cas_captcha"
    /\ pc' = IF ~is_captcha_screen_present(challenge) THEN "cas_schedule"
             ELSE IF ConfigTruthy(config, "anticaptcha_api_key") THEN "cap_sitekey"
             ELSE "cap_wait"
    /\ UNCHANGED <<callVars, watchVars, inputVars, frame, exitStatus, runs, swallowed, fileVars, proxyVars,
                   browserVars, walkVars, pageVars, gateVars, failVars, runVars>>

\* utils.retry (src/utils.py lines 10-26) as solve_captcha calls it
\* (src/captcha/solver.py line 29)
retry_count == 3
retry_period_sec == 5

\* a retry that counts the first call among the retry_count
retry_again_strict(num) == num < retry_count

\* the except branch of retry: sleep and go on, or re-raise
retry_again(num) == num <= retry_count

\* src/captcha/solver.py lines 19-29: find_site_key under utils.retry
CapSiteKey ==
    /\ pc = "cap_sitekey"
    /\ \/ Goto("cap_solve") /\ UNCHANGED gateVars
       \/ /\ retry_num' = retry_num + 1
          /\ UNCHANGED <<captcha_round, leftover>>
          /\ IF retry_again(retry_num')
             THEN slept' = slept + retry_period_sec /\ Goto("cap_sitekey")
             ELSE UNCHANGED slept /\ Raise("cap_sitekey", "Exception")
    /\ UNCHANGED <<callVars, watchVars, inputVars, frame, exitStatus, runs, swallowed, fileVars, proxyVars,
                   browserVars, walkVars, pageVars, runVars>>

\* src/captcha/solver.py lines 31-57: the service call and the injection of
\* the token; the site may or may not let the browser through
CapSolve ==
    /\ pc = "cap_solve"
    /\ \/ UNCHANGED challenge /\ Raise("cap_solve", "RuntimeError")
       \/ UNCHANGED challenge /\ Raise("cap_solve", "WebDriverException")
       \/ challenge' \in BOOLEAN /\ Goto("cas_schedule")
    /\ UNCHANGED <<callVars, watchVars, inputVars, frame, exitStatus, runs, swallowed, fileVars, proxyVars,
                   driver, jar, navigations, walkVars, pageVars, gateVars, runVars>>

\* lines 314-319: the wait for a manual solution
captcha_time == 60
captcha_report_period == 10

\* a loop that counts the rounds from zero to the quotient inclusive
captcha_rounds_inclusive == captcha_time \div captcha_report_period + 1

\* line 316: range(captcha_time // captcha_report_period - 1)
captcha_rounds == captcha_time \div captcha_report_period - 1

\* each round logs the seconds left (lines 317-318) and sleeps 10 seconds
\* (line 319); the page is not looked at until the rounds are over
CapWait ==
    /\ pc = "cap_wait"
    /\ IF captcha_round < captcha_rounds
       THEN /\ leftover' = captcha_time - captcha_round * captcha_report_period
            /\ captcha_round' = captcha_round + 1
            /\ slept' = slept + 10
            /\ challenge' \in {challenge, FALSE}
            /\ pc' = "cap_wait"
       ELSE /\ pc' = "cas_schedule"
            /\ UNCHANGED <<captcha_round, slept, leftover, challenge>>
    /\ UNCHANGED <<callVars, watchVars, inputVars, frame, exitStatus, runs, swallowed, fileVars, proxyVars,
                   driver, jar, navigations, walkVars, pageVars, retry_num, failVars,
                   runVars>>

\* a step of the flow that acts on the page and then writes a checkpoint
FlowStep(step, name, next) ==
    \/ Raise(step, "NoSuchElementException") /\ UNCHANGED checkpoints
    \/ Raise(step, "OSError") /\ UNCHANGED checkpoints
    \/ Traced(name) /\ Goto(next)

\* lines 321-324: the schedule link, which the challenge screen does not have
CasSchedule ==
    /\ pc = "cas_schedule"
    /\ IF challenge
       THEN Raise("cas_schedule", "NoSuchElementException") /\ UNCHANGED checkpoints
       ELSE FlowStep("cas_schedule", "schedule-clicked", "cas_city")
    \* the locals of the gate are gone
    /\ retry_num' = 0
    /\ captcha_round' = 0
    /\ slept' = 0
    /\ leftover' = 0
    /\ UNCHANGED <<callVars, watchVars, inputVars, frame, exitStatus, runs, swallowed, fileVars, proxyVars,
                   browserVars, walkVars, pageVars, state, sent, errorPath,
                   stateSaved, cookieSaves>>

\* lines 326-334: the city, when one is configured
CasCity ==
    /\ pc = "cas_city"
    /\ IF ConfigTruthy(config, "scheduling_city")
       THEN FlowStep("cas_city", "city-submitted", "cas_category")
       ELSE Goto("cas_category") /\ UNCHANGED checkpoints
    /\ UNCHANGED <<callVars, watchVars, inputVars, frame, exitStatus, runs, swallowed, fileVars, proxyVars,
                   browserVars, walkVars, pageVars, gateVars, state, sent, errorPath,
                   stateSaved, cookieSaves>>

\* lines 336-343: the visa category
CasCategory ==
    /\ pc = "cas_category"
    /\ FlowStep("cas_category", "before-calendar", "cas_marker1")
    /\ UNCHANGED <<callVars, watchVars, inputVars, frame, exitStatus, runs, swallowed, fileVars, proxyVars,
                   browserVars, walkVars, pageVars, gateVars, state, sent, errorPath,
                   stateSaved, cookieSaves>>

\* the element as is_no_dates_available_marker_present found it at a stage
LookedUp(msg, stage) == [span |-> msg.span, text |-> msg.text, stage |-> stage]

\* the calendar pages the site may display next: the scrape stays within
\* MaxSlots slots
PagesFitting ==
    {content \in PagesServed(frame, pageNo + 1) :
        Len(slots) + RowsOf(content) <= MaxSlots}

\* a result with no screenshot at all
NoSlotsResultBare == [slots |-> <<>>, screenshots |-> 0]

\* lines 347-348 and 374-375: SlotsCheckResults([], screenshots=[page_screenshot]);
\* the screenshots of a result are modelled by their number
NoSlotsResult == [slots |-> <<>>, screenshots |-> 1]

\* lines 345-348 and 372-375: the short circuit on the no-slots marker
ShortCircuit(step, stage, next) ==
    \E msg \in Messages :
        /\ message' = LookedUp(msg, stage)
        /\ IF is_no_dates_available_marker_present(msg)
           THEN \/ /\ slots' = NoSlotsResult.slots
                   /\ screenshots' = NoSlotsResult.screenshots
                   /\ UNCHANGED pageNo
                   /\ Goto("co_notify")
                \/ UNCHANGED walkVars /\ Raise(step, "WebDriverException")
           ELSE UNCHANGED walkVars /\ Goto(next)

CasMarker1 ==
    /\ pc = "cas_marker1"
    /\ ShortCircuit("cas_marker1", "before-calendar", "cas_form")
    /\ UNCHANGED <<callVars, watchVars, inputVars, frame, exitStatus, runs, swallowed, fileVars, proxyVars,
                   browserVars, gateVars, runVars, cells>>

\* lines 353-369: the applicant form
CasForm ==
    /\ pc = "cas_form"
    /\ FlowStep("cas_form", "calendar", "cas_marker2")
    /\ UNCHANGED <<callVars, watchVars, inputVars, frame, exitStatus, runs, swallowed, fileVars, proxyVars,
                   browserVars, walkVars, pageVars, gateVars, state, sent, errorPath,
                   stateSaved, cookieSaves>>

\* the page after the form is the first calendar page
CasMarker2 ==
    /\ pc = "cas_marker2"
    /\ ShortCircuit("cas_marker2", "calendar", "cas_page")
    /\ cells' \in PagesFitting
    /\ UNCHANGED <<callVars, watchVars, inputVars, frame, exitStatus, runs, swallowed, fileVars, proxyVars,
                   browserVars, gateVars, runVars>>

\* lines 381-387: one calendar page: screenshot, then parse_available_dates
CasPage ==
    /\ pc = "cas_page"
    /\ \/ UNCHANGED walkVars /\ Raise("cas_page", "NoSuchElementException")
       \/ /\ pageNo < MaxPages
          /\ pageNo' = pageNo + 1
          /\ screenshots' = screenshots + 1
          /\ slots' = slots \o parse_available_dates(MonthLabels[pageNo'], cells)
          /\ Goto("cas_next")
    /\ UNCHANGED <<callVars, watchVars, inputVars, frame, exitStatus, runs, swallowed, fileVars, proxyVars,
                   browserVars, pageVars, gateVars, runVars>>

\* lines 389-395: the next-month link, the end-of-data marker, the checkpoint
CasNext ==
    /\ pc = "cas_next"
    /\ \/ /\ Raise("cas_next", "NoSuchElementException")
          /\ UNCHANGED <<checkpoints, pageVars>>
       \/ \E msg \in Messages :
            /\ pageNo = MaxPages => is_no_dates_available_marker_present(msg)
            /\ message' = LookedUp(msg, "next-month")
            /\ IF is_no_dates_available_marker_present(msg)
               THEN /\ cells' \in PagesServed(frame, pageNo + 1)
                    /\ Goto("co_notify")
                    /\ UNCHANGED checkpoints
               ELSE /\ cells' \in PagesFitting
                    /\ \/ Traced("calendar") /\ Goto("cas_page")
                       \/ Raise("cas_next", "OSError") /\ UNCHANGED checkpoints
    /\ UNCHANGED <<callVars, watchVars, inputVars, frame, exitStatus, runs, swallowed, fileVars, proxyVars,
                   browserVars, walkVars, gateVars, state, sent, errorPath,
                   stateSaved, cookieSaves>>

(***************************************************************************)
(* src/main.py: check_once, second part: diff, notification, status,       *)
(* state and cookies.                                                      *)
(***************************************************************************)
\* check_available_slots is over: nothing looks at the message or at the
\* day cells of the page any more
PageLeft == message' = NoMessage /\ cells' = NoCells

\* lines 509-512: the slots of the loaded state
prev_available_slots(st) ==
    IF "available_slots" \in DOMAIN st
    THEN [i \in DOMAIN st["available_slots"] |-> from_dict(st["available_slots"][i])]
    ELSE <<>>

prev_available_dates(st) == get_available_dates(prev_available_slots(st))

\* a comparison of the months alone
state_changed_months(prev, current) == Keys(prev) # Keys(current)

\* a comparison that never sees a change
state_changed_never(prev, current) == FALSE

\* line 515: prev_available_dates != available_dates
state_changed(prev, current) == prev # current

\* lines 508-570
CoNotify ==
    /\ pc = "co_notify"
    /\ LET available_dates == get_available_dates(slots)
           prev == prev_available_dates(state)
           url == config["scheduling_url"]
           diff == get_available_slots_diff(prev, available_dates)
       IN  IF ~state_changed(prev, available_dates)
           THEN UNCHANGED sent /\ Goto("co_status")
           ELSE IF available_dates # <<>> /\ ~SlotCountAssertionHolds(diff, slots)
           THEN UNCHANGED sent /\ Raise("co_notify", "AssertionError")
           ELSE IF available_dates # <<>> /\ screenshots = 0
           THEN UNCHANGED sent /\ Raise("co_notify", "IndexError")
           ELSE /\ sent' = Append(sent, Notification(prev, available_dates,
                                                     slots, screenshots, url))
                /\ \/ Goto("co_status")
                   \/ Raise("co_notify", "TelegramError")
    /\ PageLeft
    /\ UNCHANGED <<callVars, watchVars, inputVars, frame, exitStatus, runs, swallowed, fileVars, proxyVars,
                   browserVars, walkVars, gateVars, state, checkpoints,
                   errorPath, stateSaved, cookieSaves>>

StatusEdit == [call |-> "edit_message_text", text |-> "Last checked",
               media |-> 0, disable_notification |-> FALSE]

\* what a failure of bot.edit_message_text does to the run (line 578 stands
\* in the try block, with no handler of its own)
status_edit_failed == Raise("co_status", "TelegramError")

\* lines 572-578: the optional status message
CoStatus ==
    /\ pc = "co_status"
    /\ IF ConfigTruthy(config, "telegram_status_message_id")
       THEN /\ sent' = Append(sent, StatusEdit)
            /\ \/ Goto("co_save_state")
               \/ status_edit_failed
       ELSE UNCHANGED sent /\ Goto("co_save_state")
    /\ UNCHANGED <<callVars, watchVars, inputVars, frame, exitStatus, runs, swallowed, fileVars, proxyVars,
                   browserVars, walkVars, pageVars, gateVars, state, checkpoints,
                   errorPath, stateSaved, cookieSaves>>

\* a state built from the two keys alone, dropping what was loaded
new_state_replacing(st, result_slots, now) ==
    [available_slots |-> [i \in DOMAIN result_slots |-> to_dict(result_slots[i])],
     timestamp |-> now]

\* lines 580-584: dict(state, available_slots=..., timestamp=time.time())
new_state(st, result_slots, now) ==
    [k \in DOMAIN st \cup {"available_slots", "timestamp"} |->
        IF k = "available_slots"
        THEN [i \in DOMAIN result_slots |-> to_dict(result_slots[i])]
        ELSE IF k = "timestamp" THEN now
        ELSE st[k]]

\* state_provider.save (lines 435-437); the run number stands for the time
CoSaveState ==
    /\ pc = "co_save_state"
    /\ \/ /\ stateFile' = new_state(state, slots, runs)
          /\ stateSaved' = TRUE
          /\ Goto("co_save_cookies")
       \/ /\ UNCHANGED <<stateFile, stateSaved>>
          /\ Raise("co_save_state", "OSError")
    /\ UNCHANGED <<callVars, watchVars, inputVars, frame, exitStatus, runs, swallowed, cookieFile, proxyVars,
                   browserVars, walkVars, pageVars, gateVars, state, checkpoints, sent,
                   errorPath, cookieSaves>>

\* lines 588-590
CoSaveCookies ==
    /\ pc = "co_save_cookies"
    /\ \/ /\ cookieFile' = save_cookies(jar)
          /\ cookieSaves' = Append(cookieSaves, "try")
          /\ Goto("co_finally")
       \/ /\ UNCHANGED <<cookieFile, cookieSaves>>
          /\ Raise("co_save_cookies", "WebDriverException")
    /\ UNCHANGED <<callVars, watchVars, inputVars, frame, exitStatus, runs, swallowed, stateFile, proxyVars,
                   browserVars, walkVars, pageVars, gateVars, state, checkpoints, sent,
                   errorPath, stateSaved>>

(***************************************************************************)
(* src/main.py: check_once, the except block (lines 591-600) and the       *)
(* finally block (lines 601-606).  An exception raised inside the except   *)
(* block replaces the one being handled and goes straight to finally.      *)
(***************************************************************************)
\* a test of the driver that is inverted
error_checkpoint_inverted(drv) == drv = "None"

\* line 592: `if driver:`
error_checkpoint_wanted(drv) == drv # "None"

\* lines 592-593: page_trace(driver, 'error', screenshot=True)
CoExcept ==
    /\ pc = "co_except"
    /\ IF error_checkpoint_wanted(driver)
       THEN \/ /\ Traced("error")
               /\ errorPath' = [errorPath EXCEPT !.checkpoint = "written"]
               /\ pc' = "co_except_captcha"
               /\ UNCHANGED excType
            \/ /\ errorPath' = [errorPath EXCEPT !.checkpoint = "failed"]
               /\ excType' = "OSError"
               /\ pc' = "co_finally"
               /\ UNCHANGED checkpoints
       ELSE /\ pc' = "co_finally"
            /\ UNCHANGED <<checkpoints, errorPath, excType>>
    /\ PageLeft
    /\ UNCHANGED <<callVars, watchVars, inputVars, frame, exitStatus, runs, swallowed, fileVars, proxyVars,
                   browserVars, walkVars, gateVars, failedAt, raised, state,
                   sent, stateSaved, cookieSaves>>

\* line 595: `if not is_captcha_screen_present(driver):`
save_cookies_on_error(shown) == ~is_captcha_screen_present(shown)

CoExceptCaptcha ==
    /\ pc = "co_except_captcha"
    /\ \/ /\ errorPath' = [errorPath EXCEPT !.captcha =
                              IF challenge THEN "present" ELSE "absent"]
          /\ pc' = IF save_cookies_on_error(challenge)
                   THEN "co_except_save" ELSE "co_finally"
          /\ UNCHANGED excType
       \/ \* the lookup raises something else than NoSuchElementException
          /\ errorPath' = [errorPath EXCEPT !.captcha = "failed"]
          /\ excType' = "WebDriverException"
          /\ pc' = "co_finally"
    /\ UNCHANGED <<callVars, watchVars, inputVars, frame, exitStatus, runs, swallowed, fileVars, proxyVars,
                   browserVars, walkVars, pageVars, gateVars, failedAt, raised, state,
                   checkpoints, sent, stateSaved, cookieSaves>>

\* lines 596-598
CoExceptSave ==
    /\ pc = "co_except_save"
    /\ pc' = "co_finally"
    /\ \/ /\ cookieFile' = save_cookies(jar)
          /\ cookieSaves' = Append(cookieSaves, "except")
          /\ errorPath' = [errorPath EXCEPT !.cookies = "saved"]
          /\ UNCHANGED excType
       \/ /\ errorPath' = [errorPath EXCEPT !.cookies = "failed"]
          /\ excType' = "WebDriverException"
          /\ UNCHANGED <<cookieFile, cookieSaves>>
    /\ UNCHANGED <<callVars, watchVars, inputVars, frame, exitStatus, runs, swallowed, stateFile, proxyVars,
                   browserVars, walkVars, pageVars, gateVars, failedAt, raised, state,
                   checkpoints, sent, stateSaved>>

\* lines 602-604: `if driver: driver.close()`; when close raises, the rest
\* of the finally block is skipped
CoFinallyClose ==
    /\ pc = "co_finally"
    /\ IF driver = "None"
       THEN pc' = "co_finally_stop" /\ UNCHANGED <<driver, excType, raised>>
       ELSE \/ /\ driver' = "closed"
               /\ pc' = "co_finally_stop"
               /\ UNCHANGED <<excType, raised>>
            \/ /\ excType' = "WebDriverException"
               /\ raised' = TRUE
               /\ pc' = "co_return"
               /\ UNCHANGED driver
    /\ UNCHANGED <<callVars, watchVars, inputVars, frame, exitStatus, runs, swallowed, fileVars, proxyVars,
                   challenge, jar, navigations, walkVars, pageVars, gateVars, failedAt,
                   runVars>>

\* ProxyHost.stop (src/proxy_host.py lines 55-66)
ProxyStop ==
    IF proc = "None"
    THEN UNCHANGED proxyVars
    ELSE proc' = "None" /\ log_file' = "None"

\* lines 605-606
CoFinallyStop ==
    /\ pc = "co_finally_stop"
    /\ ProxyStop
    /\ pc' = "co_return"
    /\ UNCHANGED <<callVars, watchVars, inputVars, frame, exitStatus, runs, swallowed, fileVars, browserVars,
                   walkVars, pageVars, gateVars, failVars, runVars>>

(***************************************************************************)
(* The specification.                                                      *)
(***************************************************************************)
Next ==
    \/ Main
    \/ MainReturn
    \/ Monitor
    \/ MonitorCatch
    \/ MonitorSleep
    \/ BotTest
    \/ CoStart
    \/ CoConfig
    \/ CoProxyStart
    \/ CoLaunch
    \/ CoCookieNav
    \/ CoLoadCookies
    \/ CoTelegram
    \/ CoStateGet
    \/ CasConfig
    \/ CasGet
    \/ CasCaptcha
    \/ CapSiteKey
    \/ CapSolve
    \/ CapWait
    \/ CasSchedule
    \/ CasCity
    \/ CasCategory
    \/ CasMarker1
    \/ CasForm
    \/ CasMarker2
    \/ CasPage
    \/ CasNext
    \/ CoNotify
    \/ CoStatus
    \/ CoSaveState
    \/ CoSaveCookies
    \/ CoExcept
    \/ CoExceptCaptcha
    \/ CoExceptSave
    \/ CoFinallyClose
    \/ CoFinallyStop

Spec == Init /\ [][Next]_vars

(***************************************************************************)
(* The pure functions called on their own: get_available_slots_diff,       *)
(* get_available_dates and the dict round trip of AvailableSlot, each      *)
(* applied to arguments drawn from the sets below.                         *)
(***************************************************************************)
\* the month labels and the times of the arguments
CallMonths == {"May", "Jun"}
CallTimes == {"0900", "1000"}

\* lists of distinct days, in any order
DayLists ==
    {days \in UNION {[1..n -> Days] : n \in 1..Cardinality(Days)} :
        \A i, j \in DOMAIN days : i # j => days[i] # days[j]}

\* OrderedDicts month -> days: months in any insertion order, no key twice
Snapshots ==
    {od \in UNION {[1..n -> CallMonths \X DayLists] :
                      n \in 0..Cardinality(CallMonths)} :
        \A i, j \in DOMAIN od : i # j => od[i][1] # od[j][1]}

\* lists of AvailableSlot, in any order, a slot possibly repeated
CallSlots == {AvailableSlot(m, d, t) : m \in CallMonths, d \in Days, t \in CallTimes}
SlotLists == UNION {[1..n -> CallSlots] : n \in 0..MaxListLen}

\* valid slots: a month label, a day of 1..31, a time of four digits
ValidSlots ==
    {AvailableSlot(MonthLabels[m], d, t) :
        m \in DOMAIN MonthLabels, d \in 1..31, t \in {"0000", "0900", "1030", "2359"}}

Functions == {"get_available_slots_diff", "get_available_dates", "from_dict"}

CallInit ==
    /\ entry = "call"
    /\ command = "check"
    /\ config = BaseConfig
    /\ frame = "main"
    /\ pc = "call"
    /\ stateFile = EmptyDict
    /\ cookieFile = NoCookieFile
    /\ NoRun
    /\ NoWatch
    /\ fn \in Functions
    /\ IF fn = "get_available_slots_diff"
       THEN arg_baseline \in Snapshots /\ arg_current \in Snapshots
       ELSE arg_baseline = <<>> /\ arg_current = <<>>
    /\ IF fn = "get_available_dates" THEN slots \in SlotLists ELSE slots = <<>>
    /\ IF fn = "from_dict"
       THEN arg_slot \in ValidSlots
       ELSE arg_slot = AvailableSlot("May", 1, "0900")
    /\ ret_diff = <<>>
    /\ ret_dates = <<>>
    /\ ret_slot = AvailableSlot("May", 1, "0900")

Returned ==
    /\ pc = "call"
    /\ pc' = "returned"
    /\ UNCHANGED <<watchVars, inputVars, frame, exitStatus, runs, swallowed, fileVars,
                   proxyVars, browserVars, walkVars, pageVars, gateVars, failVars, runVars,
                   fn, arg_baseline, arg_current, arg_slot>>

\* diff = get_available_slots_diff(baseline, current)
CallDiff ==
    /\ fn = "get_available_slots_diff"
    /\ Returned
    /\ ret_diff' = get_available_slots_diff(arg_baseline, arg_current)
    /\ UNCHANGED <<ret_dates, ret_slot>>

\* available_dates = get_available_dates(slots)
CallDates ==
    /\ fn = "get_available_dates"
    /\ Returned
    /\ ret_dates' = get_available_dates(slots)
    /\ UNCHANGED <<ret_diff, ret_slot>>

\* AvailableSlot.from_dict(slot.to_dict())
CallFromDict ==
    /\ fn = "from_dict"
    /\ Returned
    /\ ret_slot' = from_dict(to_dict(arg_slot))
    /\ UNCHANGED <<ret_diff, ret_dates>>

CallNext ==
    \/ CallDiff
    \/ CallDates
    \/ CallFromDict

CallSpec == CallInit /\ [][CallNext]_vars

(***************************************************************************)
(* src/proxy_host.py taken statement by statement: one ProxyHost is        *)
(* started and stopped by the thread of check_once while its watcher       *)
(* thread runs _monitor.  A step is one statement of one of the threads;   *)
(* the mitmdump process may exit by itself at any time.                    *)
(***************************************************************************)
WatchInit ==
    /\ entry = "ProxyHost"
    /\ command = "check"
    /\ config = BaseConfig
    /\ frame = "main"
    /\ pc = "start_open"
    /\ stateFile = EmptyDict
    /\ cookieFile = NoCookieFile
    /\ slots = <<>>
    /\ NoRun
    /\ NoCall
    /\ NoWatch

\* what a step of the calling thread leaves alone
HostFrame ==
    UNCHANGED <<callVars, inputVars, frame, exitStatus, runs, swallowed, fileVars,
                browserVars, walkVars, pageVars, gateVars, failVars, runVars,
                returncode, watch_proc, watch_error, death_logged>>

\* what a step of the watcher thread leaves alone
WatcherFrame ==
    UNCHANGED <<callVars, inputVars, procVars, fileVars, proxyVars, browserVars,
                walkVars, pageVars, gateVars, failVars, runVars, process>>

\* start, lines 19-22: proc is None in a new ProxyHost; the log file is
\* opened, or open raises and the finally block of check_once calls stop
StartOpen ==
    /\ pc = "start_open"
    /\ \/ log_file' = "open" /\ pc' = "start_popen"
       \/ UNCHANGED log_file /\ pc' = "stop_test"
    /\ UNCHANGED <<proc, process, watch_pc>>
    /\ HostFrame

\* start, lines 24-29: the process is spawned, or Popen raises
StartPopen ==
    /\ pc = "start_popen"
    /\ \/ proc' = "running" /\ process' = "running" /\ pc' = "start_thread"
       \/ UNCHANGED <<proc, process>> /\ pc' = "stop_test"
    /\ UNCHANGED <<log_file, watch_pc>>
    /\ HostFrame

\* start, lines 31-33: the watcher thread is started
StartThread ==
    /\ pc = "start_thread"
    /\ watch_pc' = "read_proc"
    /\ pc' = "started"
    /\ UNCHANGED <<proxyVars, process>>
    /\ HostFrame

\* the rest of check_once up to the finally block
HostBusy ==
    /\ pc = "started"
    /\ pc' = "stop_test"
    /\ UNCHANGED <<proxyVars, process, watch_pc>>
    /\ HostFrame

\* mitmdump exits by itself
ProcessExits ==
    /\ process = "running"
    /\ process' = "crashed"
    /\ UNCHANGED <<pc, proxyVars, watch_pc>>
    /\ HostFrame

\* stop, lines 56-58
StopTest ==
    /\ pc = "stop_test"
    /\ pc' = IF proc = "None" THEN "stopped" ELSE "stop_kill"
    /\ UNCHANGED <<proxyVars, process, watch_pc>>
    /\ HostFrame

\* stop, line 62: self.proc.kill()
StopKill ==
    /\ pc = "stop_kill"
    /\ process' = IF process = "running" THEN "killed" ELSE process
    /\ pc' = "stop_clear_proc"
    /\ UNCHANGED <<proxyVars, watch_pc>>
    /\ HostFrame

\* stop, line 63: self.proc = None
StopClearProc ==
    /\ pc = "stop_clear_proc"
    /\ proc' = "None"
    /\ pc' = "stop_close"
    /\ UNCHANGED <<log_file, process, watch_pc>>
    /\ HostFrame

\* stop, line 64: self.log_file.close()
StopClose ==
    /\ pc = "stop_close"
    /\ log_file' = "closed"
    /\ pc' = "stop_clear_log"
    /\ UNCHANGED <<proc, process, watch_pc>>
    /\ HostFrame

\* stop, line 65: self.log_file = None
StopClearLog ==
    /\ pc = "stop_clear_log"
    /\ log_file' = "None"
    /\ pc' = "stopped"
    /\ UNCHANGED <<proc, process, watch_pc>>
    /\ HostFrame

\* _monitor, line 39: proc = self.proc
MonitorReadProc ==
    /\ watch_pc = "read_proc"
    /\ watch_proc' = proc
    /\ watch_pc' = "test_proc"
    /\ UNCHANGED <<returncode, watch_error, death_logged>>
    /\ WatcherFrame

\* _monitor, lines 41-42
MonitorTestProc ==
    /\ watch_pc = "test_proc"
    /\ watch_pc' = IF watch_proc = "None" THEN "done" ELSE "poll"
    /\ UNCHANGED <<returncode, watch_proc, watch_error, death_logged>>
    /\ WatcherFrame

\* the exit codes poll() may find: none while the process runs, the code of
\* its own exit, or that of the kill once the killed process is gone
Polled ==
    IF returncode # "None" THEN {returncode}
    ELSE CASE process = "running" -> {"None"}
           [] process = "crashed" -> {"1"}
           [] process = "killed"  -> {"None", "-9"}
           [] OTHER -> {"None"}

\* _monitor, line 44: proc.poll()
MonitorPoll ==
    /\ watch_pc = "poll"
    /\ returncode' \in Polled
    /\ watch_pc' = "test_returncode"
    /\ UNCHANGED <<watch_proc, watch_error, death_logged>>
    /\ WatcherFrame

\* _monitor, line 46
MonitorTestReturncode ==
    /\ watch_pc = "test_returncode"
    /\ watch_pc' = IF returncode # "None" THEN "log_death" ELSE "sleep"
    /\ UNCHANGED <<returncode, watch_proc, watch_error, death_logged>>
    /\ WatcherFrame

\* _monitor, lines 47-51: the arguments of logger.error are evaluated first,
\* self.log_file.name among them; then the error is logged and the loop left
MonitorLogDeath ==
    /\ watch_pc = "log_death"
    /\ IF log_file = "None"
       THEN /\ watch_error' = "AttributeError"
            /\ watch_pc' = "raised"
            /\ UNCHANGED death_logged
       ELSE /\ death_logged' = process
            /\ watch_pc' = "done"
            /\ UNCHANGED watch_error
    /\ UNCHANGED <<returncode, watch_proc>>
    /\ WatcherFrame

\* _monitor, line 53: time.sleep(1)
MonitorSleepOver ==
    /\ watch_pc = "sleep"
    /\ watch_pc' = "read_proc"
    /\ UNCHANGED <<returncode, watch_proc, watch_error, death_logged>>
    /\ WatcherFrame

WatchNext ==
    \/ StartOpen
    \/ StartPopen
    \/ StartThread
    \/ HostBusy
    \/ ProcessExits
    \/ StopTest
    \/ StopKill
    \/ StopClearProc
    \/ StopClose
    \/ StopClearLog
    \/ MonitorReadProc
    \/ MonitorTestProc
    \/ MonitorPoll
    \/ MonitorTestReturncode
    \/ MonitorLogDeath
    \/ MonitorSleepOver

WatchSpec == WatchInit /\ [][WatchNext]_vars

(***************************************************************************)
(* Properties.                                                             *)
(***************************************************************************)
\* the statements of check_once that follow the launch of the browser
AfterLaunch == {"co_cookie_nav", "co_load_cookies", "co_telegram", "co_state_get",
                "cas_config", "cas_get", "cap_sitekey", "cap_solve",
                "cas_schedule", "cas_city", "cas_category", "cas_marker1",
                "cas_form", "cas_marker2", "cas_page", "cas_next", "co_notify",
                "co_status", "co_save_state", "co_save_cookies"}

\* the statements that follow the notification step
AfterNotify == {"co_status", "co_save_state", "co_save_cookies"}

\* where control is once the try block has been left
Leaving == {"co_except", "co_except_captcha", "co_except_save", "co_finally",
            "co_finally_stop", "co_return", "exit", "mon_sleep", "monitor"}

\* the run has completed the scrape and gone through the notification step
NotifyStepDone ==
    \/ pc \in AfterNotify
    \/ /\ runs >= 1
       /\ pc \in Leaving
       /\ failedAt \in {"none", "co_notify"} \cup AfterNotify

\* the send_media_group / send_message calls of the run
Notifications ==
    {i \in DOMAIN sent : sent[i].call \in {"send_media_group", "send_message"}}

\* the (month, day) pairs of a list of slots and of the slots of a state dict
DayPairs(slotSeq) == {<<slotSeq[i][1], slotSeq[i][2]>> : i \in DOMAIN slotSeq}

PersistedDayPairs(st) ==
    IF "available_slots" \in DOMAIN st
    THEN {<<st["available_slots"][i].month, st["available_slots"][i].day>> :
             i \in DOMAIN st["available_slots"]}
    ELSE {}

\* C1: every execution of check_once ends with the browser closed if it was
\* launched and with the proxy stopped (proc is None, the log file closed),
\* whichever step failed.
C1_TornDownAtReturn ==
    pc = "co_return" => driver # "open" /\ proc = "None" /\ log_file = "None"

\* C2: in monitor() no exception of check_once leaves the loop: after every
\* run, successful or failed, the loop sleeps and then calls check_once again,
\* and a program that entered monitor() never ends.
C2_MonitorKeepsLooping ==
    /\ [](entry = "monitor()" => pc # "exit")
    /\ [][frame = "monitor" =>
            /\ (pc = "co_return" => pc' = "mon_sleep")
            /\ (pc = "mon_sleep" => pc' = "monitor")
            /\ (pc = "monitor" => pc' = "co_start")]_vars

\* two failed runs were swallowed and the loop has started a further run
C2_Witness ==
    frame = "monitor" /\ pc = "co_config" /\ swallowed = 2

\* C3: the `monitor` command enters the monitor() loop, so that the process
\* goes on running after the first check_once; the `check` command performs
\* exactly one run.
C3_MonitorCommandRepeats ==
    /\ (entry = "script" /\ command = "monitor" /\ pc # "main") =>
           (frame = "monitor" /\ pc # "exit")
    /\ (entry = "script" /\ command = "check" /\ pc = "exit") => runs = 1

\* C4: a run that completed the scrape has sent a notification if and only
\* if the (month, day) pairs of the scrape differ from those of the slots of
\* the loaded state; nothing is ever sent when they are equal.
C4_NotifiedIffDaysChanged ==
    /\ Notifications # {} => PersistedDayPairs(state) # DayPairs(slots)
    /\ NotifyStepDone =>
          (Notifications # {} <=> PersistedDayPairs(state) # DayPairs(slots))

\* the times of a known day changed, the days did not, and nothing was sent
C4_Witness ==
    /\ pc = "co_status"
    /\ prev_available_slots(state) # slots
    /\ slots # <<>>
    /\ PersistedDayPairs(state) = DayPairs(slots)
    /\ sent = <<>>

\* C5: a notification whose diff has only removed days is sent silent, one
\* whose diff has an added day is sent with sound.
C5_SilentIffNothingAdded ==
    \A i \in Notifications :
        LET someAdded == DayPairs(slots) \ PersistedDayPairs(state) # {}
        IN  sent[i].disable_notification = ~someAdded

\* C6 as stated: the text sent never exceeds the maximum length, and a text
\* within the limit is sent unchanged.
C6_SentTextWithinMaximum ==
    \A i \in Notifications :
        sent[i].call = "send_media_group" =>
            LET composed == notification_text(prev_available_dates(state),
                                get_available_dates(slots), slots,
                                config["scheduling_url"])
            IN  /\ Len(sent[i].text) <= MaxTextLen
                /\ Len(composed) <= MaxTextLen => sent[i].text = composed

\* C6 amended: a composed text longer than the maximum is sent as its first
\* MaxTextLen characters followed by the marker " (cut)", MaxTextLen + 6
\* characters in all; a text within the limit is sent unchanged.
C6_CutToMaximumPlusMarker ==
    \A i \in Notifications :
        sent[i].call = "send_media_group" =>
            LET composed == notification_text(prev_available_dates(state),
                                get_available_dates(slots), slots,
                                config["scheduling_url"])
            IN  IF Len(composed) > MaxTextLen
                THEN /\ SubSeq(sent[i].text, 1, MaxTextLen)
                          = SubSeq(composed, 1, MaxTextLen)
                     /\ SubSeq(sent[i].text, MaxTextLen + 1, Len(sent[i].text))
                          = " (cut)"
                     /\ Len(sent[i].text) = MaxTextLen + 6
                ELSE sent[i].text = composed

\* a text over the limit was sent, cut and marked
C6_Witness ==
    \E i \in Notifications :
        /\ sent[i].call = "send_media_group"
        /\ Len(sent[i].text) = MaxTextLen + 6
        /\ pc = "co_status"

\* C7: a failure of the status-message edit does not fail the run: the state
\* and the cookies are still saved and check_once returns without raising.
C7_StatusEditIsBestEffort ==
    (pc = "co_return" /\ failedAt = "co_status") =>
        (~raised /\ stateSaved /\ cookieSaves # <<>>)

\* C8: when check_once fails after the launch, the except block calls
\* save_cookies if and only if the challenge screen is not shown.
C8_ErrorPathSavesCookiesIffNoChallenge ==
    (pc = "co_finally" /\ failedAt \in AfterLaunch) =>
        (errorPath.cookies # "none" <=> ~challenge)

\* C9 as stated: an error at or after the launch step triggers the "error"
\* checkpoint before it propagates.
C9_CheckpointFromLaunchOn ==
    (pc = "co_return" /\ failedAt \in AfterLaunch \cup {"co_launch"}) =>
        errorPath.checkpoint # "none"

\* C9 amended: when the try block fails, page_trace(driver, 'error') is
\* called before the error propagates exactly when the failing statement
\* comes after the launch of the browser; a failure of the launch itself, or
\* of an earlier statement, gets no checkpoint.
C9_CheckpointIffLaunched ==
    (pc \in {"co_finally", "co_finally_stop", "co_return"} /\ failedAt # "none") =>
        (errorPath.checkpoint # "none" <=> failedAt \in AfterLaunch)

\* the last statement of the try block failed and the checkpoint was written
C9_Witness ==
    /\ pc = "co_return"
    /\ failedAt = "co_save_cookies"
    /\ errorPath.checkpoint = "written"
    /\ checkpoints[Len(checkpoints)] = "error"

\* C10 as stated: with a required key missing the browser is never launched
\* and no page is navigated in the run.
C10_NoBrowserWorkWhenKeyMissing ==
    (command # "bot-test" /\ ~(RequiredKeys \subseteq DOMAIN config)) =>
        (driver = "None" /\ navigations = 0)

\* C10 amended: with driver_path or scheduling_url missing the run aborts
\* before the proxy is started and the browser launched; with any required
\* key missing the run never loads the booking page (at most the one
\* navigation of the cookie replay happens), sends nothing, saves no state
\* and ends raising.
C10_AbortBeforeBookingFlow ==
    command # "bot-test" =>
        /\ ~({"driver_path", "scheduling_url"} \subseteq DOMAIN config) =>
              (driver = "None" /\ navigations = 0 /\ proc = "None"
                 /\ log_file = "None")
        /\ ~(RequiredKeys \subseteq DOMAIN config) =>
              /\ navigations <= 1
              /\ sent = <<>>
              /\ ~stateSaved
              /\ pc \notin (AfterLaunch \ {"co_cookie_nav", "co_load_cookies",
                                           "co_telegram", "co_state_get",
                                           "cas_config"})
              /\ pc = "co_return" => raised

\* a Telegram key is missing: the run aborted after the browser was launched
\* and the site visited
C10_Witness ==
    /\ "telegram_chat_id" \notin DOMAIN config
    /\ command = "check"
    /\ pc = "co_return"
    /\ failedAt = "co_telegram"
    /\ raised
    /\ driver = "closed"
    /\ navigations = 1

\* the days a snapshot gives for a month, the empty set when it has none
DaysIn(od, month) ==
    UNION {{od[i][2][k] : k \in DOMAIN od[i][2]} :
              i \in {j \in DOMAIN od : od[j][1] = month}}

\* seq lists the elements of S once each, in ascending order
AscendingListOf(seq, S) ==
    /\ {seq[i] : i \in DOMAIN seq} = S
    /\ \A i, j \in DOMAIN seq : i < j => seq[i] < seq[j]

\* C11: get_available_slots_diff(baseline, current) has, for month m,
\* 'removed' = the ascending list of baseline[m] minus current[m] exactly
\* when that set is not empty, and 'added' = the ascending list of
\* current[m] minus baseline[m] exactly when that set is not empty (a missing
\* month counts as empty); a month without change has no entry, and a month
\* absent from one side has the one corresponding key only.
C11_DiffIsSetDifferencePerMonth ==
    (fn = "get_available_slots_diff" /\ pc = "returned") =>
        \A m \in CallMonths :
            LET rem == DaysIn(arg_baseline, m) \ DaysIn(arg_current, m)
                add == DaysIn(arg_current, m) \ DaysIn(arg_baseline, m)
                at  == {i \in DOMAIN ret_diff : ret_diff[i][1] = m}
            IN  /\ Cardinality(at) = (IF rem = {} /\ add = {} THEN 0 ELSE 1)
                /\ \A i \in at :
                     /\ "removed" \in DOMAIN ret_diff[i][2] <=> rem # {}
                     /\ "added" \in DOMAIN ret_diff[i][2] <=> add # {}
                     /\ DOMAIN ret_diff[i][2] \subseteq {"removed", "added"}
                     /\ rem # {} => AscendingListOf(ret_diff[i][2]["removed"], rem)
                     /\ add # {} => AscendingListOf(ret_diff[i][2]["added"], add)
                     /\ m \notin Keys(arg_current) =>
                            DOMAIN ret_diff[i][2] = {"removed"}
                     /\ m \notin Keys(arg_baseline) =>
                            DOMAIN ret_diff[i][2] = {"added"}

\* one month lost a day and gained another, the other month is absent from
\* current and has only 'removed', with its two days in ascending order
C11_Witness ==
    /\ fn = "get_available_slots_diff"
    /\ pc = "returned"
    /\ arg_baseline = <<<<"May", <<2>>>>, <<"Jun", <<2, 1>>>>>>
    /\ arg_current = <<<<"May", <<1>>>>>>
    /\ ret_diff = <<<<"May", [removed |-> <<2>>, added |-> <<1>>]>>,
                    <<"Jun", [removed |-> <<1, 2>>]>>>>

\* C12: get_available_slots_diff(S, S) is the empty mapping for every
\* snapshot S.
C12_SelfDiffIsEmpty ==
    (fn = "get_available_slots_diff" /\ pc = "returned"
        /\ arg_baseline = arg_current) => ret_diff = <<>>

\* a snapshot of two months was compared with itself
C12_Witness ==
    /\ fn = "get_available_slots_diff"
    /\ pc = "returned"
    /\ arg_baseline = arg_current
    /\ Len(arg_baseline) = 2
    /\ ret_diff = <<>>

\* C13: when a run persists state, every key of the loaded state other than
\* available_slots and timestamp is kept with its value; available_slots is
\* set to the slots of the scrape and timestamp is replaced.
C13_SaveKeepsOtherKeys ==
    stateSaved =>
        /\ DOMAIN stateFile = DOMAIN state \cup {"available_slots", "timestamp"}
        /\ \A k \in DOMAIN state \ {"available_slots", "timestamp"} :
               stateFile[k] = state[k]
        /\ stateFile["available_slots"] =
               [i \in DOMAIN slots |->
                   [month |-> slots[i][1], day |-> slots[i][2], time |-> slots[i][3]]]
        /\ stateFile["timestamp"] = runs

\* a state with a foreign key and older slots was loaded and saved again:
\* the key is kept, the slots and the timestamp are new
C13_Witness ==
    /\ stateSaved
    /\ {"note", "timestamp", "available_slots"} \subseteq DOMAIN state
    /\ {"note", "timestamp", "available_slots"} \subseteq DOMAIN stateFile
    /\ stateFile["note"] = "kept"
    /\ state["timestamp"] # stateFile["timestamp"]
    /\ state["available_slots"] # stateFile["available_slots"]

\* the message last looked up shows one of the phrases of NO_DATES_MARKER_RE
marker_present ==
    message.span /\ \E phrase \in MarkerPhrases : Contains(message.text, phrase)

\* C14: when the no-slots marker is present at the pre-calendar stage or at
\* the post-calendar stage, check_available_slots goes no further: no
\* calendar page is processed, and the result it returns has zero slots and
\* exactly one screenshot.
C14_MarkerShortCircuits ==
    (message.stage \in {"before-calendar", "calendar"} /\ marker_present) =>
        /\ pc \in {"co_notify", "co_except"}
        /\ pageNo = 0
        /\ pc = "co_notify" => slots = <<>> /\ screenshots = 1
        /\ pc = "co_except" => failedAt \in {"cas_marker1", "cas_marker2"}

\* the marker was on the page after the applicant form, and the function
\* returned the empty result with its one screenshot
C14_Witness ==
    /\ pc = "co_notify"
    /\ message.stage = "calendar"
    /\ message.text = "No date(s) available for current month"
    /\ slots = <<>>
    /\ screenshots = 1
    /\ pageNo = 0

\* C15: get_available_dates lists, for each month that occurs among the
\* slots, the distinct days of the month in ascending order; the months come
\* in ascending order of their labels, each once, and a month without a slot
\* does not appear.
C15_GroupingIsSortedAndDistinct ==
    (fn = "get_available_dates" /\ pc = "returned") =>
        /\ {ret_dates[i][1] : i \in DOMAIN ret_dates}
               = {slots[i][1] : i \in DOMAIN slots}
        /\ \A i, j \in DOMAIN ret_dates :
               i < j => StrLess(ret_dates[i][1], ret_dates[j][1])
        /\ \A i \in DOMAIN ret_dates :
               AscendingListOf(ret_dates[i][2],
                   {slots[k][2] : k \in {n \in DOMAIN slots :
                                            slots[n][1] = ret_dates[i][1]}})

\* a day with two time slots, listed after a later day of the same month
C15_Witness ==
    /\ fn = "get_available_dates"
    /\ pc = "returned"
    /\ slots = <<AvailableSlot("May", 2, "0900"), AvailableSlot("May", 1, "0900"),
                 AvailableSlot("May", 1, "1000")>>
    /\ ret_dates = <<<<"May", <<1, 2>>>>>>

\* C16: for every valid AvailableSlot s (a month label, a day of 1..31, a
\* time of four digits), from_dict(s.to_dict()) equals s under __eq__.
C16_DictRoundTrip ==
    (fn = "from_dict" /\ pc = "returned") => eq(ret_slot, arg_slot)

\* the last minute of the 31st went through the dict form and came back
C16_Witness ==
    /\ fn = "from_dict"
    /\ pc = "returned"
    /\ arg_slot = AvailableSlot("Jul", 31, "2359")
    /\ ret_slot = AvailableSlot("Jul", 31, "2359")

\* C17 as stated: the site-key extraction is attempted at most 3 times, 5
\* seconds apart, and the run fails when the third attempt fails.
C17_AtMostThreeAttempts ==
    /\ pc = "cap_sitekey" => retry_num + 1 <= 3 /\ slept = 5 * retry_num
    /\ (pc = "co_except" /\ failedAt = "cap_sitekey") =>
           retry_num = 3 /\ slept = 5 * 2

\* C17 amended: with an API key configured and the challenge screen shown,
\* the site-key extraction is attempted at most 4 times (the first call and
\* 3 retries), with a pause of 5 seconds before each retry; the run fails
\* when the fourth attempt fails, after 15 seconds of pauses, and once an
\* attempt has succeeded the extraction is not attempted again.
C17_ThreeRetriesAfterFirstAttempt ==
    /\ [](pc \in {"cap_sitekey", "cap_solve"} =>
             /\ ConfigTruthy(config, "anticaptcha_api_key")
             /\ retry_num + 1 <= 4
             /\ slept = 5 * retry_num)
    /\ []((pc = "co_except" /\ failedAt = "cap_sitekey") =>
             retry_num = 4 /\ slept = 5 * 3)
    /\ [][pc = "cap_solve" => pc' # "cap_sitekey"]_vars

\* the fourth attempt failed and the run with it
C17_Witness ==
    /\ pc = "co_except"
    /\ failedAt = "cap_sitekey"
    /\ ConfigTruthy(config, "anticaptcha_api_key")
    /\ retry_num = 4
    /\ slept = 15

C19_MissingNextControlEndsWalk ==
    ~(pc = "co_except" /\ failedAt = "cas_next"
        /\ excType = "NoSuchElementException")

\* C20: the calendar walker stops on the first page on which one of the four
\* marker phrases is present, and it never stops on a page that presents an
\* open day cell.
C20_StopsOnMarkerNeverOnOpenDay ==
    message.stage = "next-month" =>
        /\ marker_present => pc = "co_notify"
        /\ pc = "co_notify" =>
               /\ marker_present
               /\ \A d \in Days : cells[d] = NotOpen

\* the lines of a notification text that begin with a mark, by position
LineStarts(text, mark) ==
    {p \in 1..Len(text) :
        /\ SubSeq(text, p, p) = mark
        /\ p > 1 => SubSeq(text, p - 1, p - 1) = "\n"}

\* the month of the line '<mark> <day> <month>...' that begins at p: the
\* label that follows the second space of the line
MonthOfLine(text, p) ==
    LET sp == CHOOSE q \in (p + 2)..Len(text) :
                  /\ SubSeq(text, q, q) = " "
                  /\ \A r \in (p + 2)..(q - 1) : SubSeq(text, r, r) # " "
    IN  CHOOSE m \in {MonthLabels[k] : k \in DOMAIN MonthLabels} :
            SubSeq(text, sp + 1, sp + Len(m)) = m

\* C21 as stated: in the notification body every removed-day line precedes
\* every added-day line, whatever the number of months of the diff.
C21_RemovedLinesBeforeAddedLines ==
    \A i \in Notifications :
        sent[i].call = "send_media_group" =>
            \A r \in LineStarts(sent[i].text, EmojiCross) :
                \A a \in LineStarts(sent[i].text, EmojiGreen) : r < a

\* C21 amended: the body goes month by month in the order of the diff; the
\* lines of one month are together, and within a month the removed-day lines
\* precede the added-day lines.
C21_RemovedBeforeAddedWithinMonth ==
    \A i \in Notifications :
        sent[i].call = "send_media_group" =>
            LET text  == sent[i].text
                rem   == LineStarts(text, EmojiCross)
                add   == LineStarts(text, EmojiGreen)
                lines == rem \cup add
            IN  /\ \A r \in rem : \A a \in add :
                       MonthOfLine(text, r) = MonthOfLine(text, a) => r < a
                /\ \A p, q, s \in lines :
                       (p < q /\ q < s
                          /\ MonthOfLine(text, p) = MonthOfLine(text, s))
                         => MonthOfLine(text, q) = MonthOfLine(text, p)

\* a month lost a day and gained another, and a later month of the diff
\* lost a day: an added-day line stands before a removed-day line
C21_Witness ==
    \E i \in Notifications :
        /\ sent[i].call = "send_media_group"
        /\ \E a \in LineStarts(sent[i].text, EmojiGreen) :
               \E r \in LineStarts(sent[i].text, EmojiCross) :
                   /\ a < r
                   /\ MonthOfLine(sent[i].text, a) = "Jun"
                   /\ MonthOfLine(sent[i].text, r) = "May"

\* the steps of check_available_slots that end with a page_trace
TracedSteps == {"cas_get", "cas_schedule", "cas_city", "cas_category",
                "cas_form", "cas_next"}

\* C22: a checkpoint never fails the run: an I/O error of page_trace at a
\* transition of the booking flow is swallowed, and the flow goes on with the
\* next step.
C22_CheckpointNeverFailsRun ==
    ~(pc = "co_except" /\ failedAt \in TracedSteps /\ excType = "OSError")

\* C23: the watcher logs a death only when the process exited by itself:
\* under every interleaving of _monitor with a deliberate stop() the watcher
\* ends without logging the error for the killed process and without
\* reading log_file after stop() has set it to None.
C23_WatcherSilentOnDeliberateStop ==
    /\ death_logged \in {"none", "crashed"}
    /\ watch_error = "none"

\* C24: the state store is written only by the save that follows a
\* successful scrape, notification (when the days changed) and status edit
\* (when one is configured), and only the cookie save comes after it; a run
\* that fails at an earlier step leaves the state store as it was, so a
\* change is never recorded without its notification having been sent.
C24_StateSavedAfterNotification ==
    /\ [][(stateFile' # stateFile \/ (stateSaved' /\ ~stateSaved)) =>
             /\ pc = "co_save_state"
             /\ failedAt = "none"
             /\ pc' = "co_save_cookies"]_vars
    /\ [](stateSaved =>
             /\ failedAt \in {"none", "co_save_cookies"}
             /\ PersistedDayPairs(state) # DayPairs(slots) =>
                    \E i \in Notifications : TRUE
             /\ ConfigTruthy(config, "telegram_status_message_id") =>
                    \E i \in DOMAIN sent : sent[i].call = "edit_message_text")

\* a change was notified, the status message edited, and the state saved
C24_Witness ==
    /\ pc = "co_save_cookies"
    /\ stateSaved
    /\ PersistedDayPairs(state) # DayPairs(slots)
    /\ stateFile # state
    /\ \E i \in Notifications : sent[i].call = "send_media_group"
    /\ \E i \in DOMAIN sent : sent[i].call = "edit_message_text"

\* C25: save_cookies runs in a run only after load_cookies has completed in
\* that run, on the success path and on the error path alike: a run that
\* fails at the navigation before the replay, or in the replay itself, does
\* not write the cookie file.
C25_CookiesSavedAfterReplay ==
    failedAt \in {"co_cookie_nav", "co_load_cookies"} => cookieSaves = <<>>

\* C26: the assertion available_slot_count > 0 of the notification composer
\* never fails: every day the diff lists as added has a slot of that month
\* and day in the scrape, and a day whose detail view showed no time row is
\* in no slot of the scrape.
C26_AddedDaysHaveSlots ==
    /\ excType # "AssertionError"
    /\ pc = "co_notify" =>
           LET diff == get_available_slots_diff(prev_available_dates(state),
                                                get_available_dates(slots))
           IN  \A i \in DOMAIN diff :
                   "added" \in DOMAIN diff[i][2] =>
                       \A j \in DOMAIN diff[i][2]["added"] :
                           \E k \in DOMAIN slots :
                               /\ slots[k][1] = diff[i][1]
                               /\ slots[k][2] = diff[i][2]["added"][j]
    /\ pc = "cas_next" =>
           \A d \in Days :
               cells[d] <= 0 => <<MonthLabels[pageNo], d>> \notin DayPairs(slots)

\* a notification that lists an added day was composed and sent
C26_Witness ==
    /\ pc = "co_status"
    /\ \E i \in Notifications :
           /\ sent[i].call = "send_media_group"
           /\ LineStarts(sent[i].text, EmojiGreen) # {}
    /\ PersistedDayPairs(state) # {}

\* C27: every result check_available_slots returns has at least one
\* screenshot: exactly one on a short circuit, one per calendar page
\* processed otherwise; so the first media item, which gets the caption,
\* exists whenever the media group is composed.
C27_ResultHasScreenshot ==
    /\ excType # "IndexError"
    /\ pc = "co_notify" =>
           /\ screenshots >= 1
           /\ screenshots = (IF pageNo = 0 THEN 1 ELSE pageNo)
    /\ \A i \in Notifications :
           sent[i].call = "send_media_group" => sent[i].media >= 1

\* the walker processed two calendar pages, and the media group went out
\* with the two screenshots
C27_Witness ==
    /\ pc = "co_status"
    /\ pageNo = 2
    /\ screenshots = 2
    /\ \E i \in Notifications :
           sent[i].call = "send_media_group" /\ sent[i].media = 2

====
